---- MODULE Spec2Model ----
(***************************************************************************)
(* Model of the W25Qxx SPI NOR flash driver (src/src/w25qxx.rs) and of the *)
(* demonstration entry point that drives it (src/src/main.rs).             *)
(*                                                                         *)
(* The driver is single threaded.  Every step of the model is one bus      *)
(* transaction (or one raw transceiver write) of the driver, together with *)
(* the control flow that follows it up to the next bus access.  The chip   *)
(* and the transceiver are the environment: the status byte, the           *)
(* identification bytes and the success of each transceiver call are       *)
(* chosen nondeterministically.                                            *)
(*                                                                         *)
(* u32 and usize values are kept at their width as big-endian sequences of *)
(* 16-bit limbs (u32: 2 limbs, usize: 4 limbs), so that the additions of   *)
(* the source overflow exactly where they do in the program.               *)
(***************************************************************************)
EXTENDS Integers, Sequences, FiniteSets, TLC

VARIABLES
    caller,     \* "client": any sequence of public calls; "main": main.rs
    mainpc,     \* position of main.rs (caller = "main")
    pc,         \* position of the driver inside the current public operation
    op,         \* the public operation running or last run
    result,     \* "none" while running, then "Ok" | "Err" | "Panic"
    cs,         \* level of the chip-select line: "high" (idle) | "low" (asserted)
    trace,      \* bus events of the current operation, in order (history)
    noise,      \* environment anomalies used up in the current operation
    address,    \* argument: u32
    len,        \* argument of erase: usize
    buffer,     \* argument of write (source) or read (destination)
    addr,       \* local of write / erase: u32
    size,       \* local of write / erase: usize
    offset,     \* local of write
    u_end       \* local of erase: u32

vars == <<caller, mainpc, pc, op, result, cs, trace, noise,
          address, len, buffer, addr, size, offset, u_end>>

-----------------------------------------------------------------------------
(* Bounds of the model *)

\* environment anomalies (busy reads, clear latch, failing transceiver calls)
\* allowed within one public operation
MaxNoise == 2
\* erase lengths 0, 4096, ..., MaxSectors * 4096 are tried besides the block sizes
MaxSectors == 2
\* write lengths reach into page number MaxPages (counted from 1)
MaxPages == 3
\* erase transactions followed within one call of erase: a call that needs
\* more units is followed up to this one
MaxUnits == 4

-----------------------------------------------------------------------------
(* Program constants *)

W25QXX_MANID_VALUE == 239
W25QXX_DEVID_VALUE_128 == 23
W25QXX_PAGE_SIZE == 256
W25QXX_SECTOR_SIZE == 4096
W25QXX_BLOCK32K_SIZE == 32768
W25QXX_BLOCK64K_SIZE == 65536

CmdJedec == 144
CmdPageProgram == 2
CmdReadData == 3
CmdFastRead == 11
CmdReadStatusRegister1 == 5
CmdWriteEnable == 6
CmdSectorErase == 32
CmdBlock32Erase == 82
CmdBlock64Erase == 216
CmdChipErase == 199
CmdEnableReset == 102
CmdReset == 153

StatusBusy == 1
StatusWriteEnable == 2

-----------------------------------------------------------------------------
(* Fixed-width unsigned arithmetic on big-endian sequences of 16-bit limbs *)

Limb == 65536

\* the k-limb value of a number n < 2^31
ToLimbs(n, k) ==
    [i \in 1..k |-> IF i = k THEN n % Limb
                    ELSE IF i = k - 1 THEN n \div Limb
                    ELSE 0]

U32(n) == ToLimbs(n, 2)
Usize(n) == ToLimbs(n, 4)

\* `x as u32` of a usize: the low 32 bits
AsU32(x) == <<x[3], x[4]>>
\* `x as usize` of a u32
AsUsize(x) == <<0, 0, x[1], x[2]>>

RECURSIVE CarryOut(_, _, _)
\* carry out of limb position i of a + b
CarryOut(a, b, i) ==
    IF i > Len(a) THEN 0
    ELSE (a[i] + b[i] + CarryOut(a, b, i + 1)) \div Limb

\* a + b truncated to the width of a
WrappingAdd(a, b) ==
    [i \in 1..Len(a) |-> (a[i] + b[i] + CarryOut(a, b, i + 1)) % Limb]

AddOverflows(a, b) == CarryOut(a, b, 1) = 1

RECURSIVE BorrowOut(_, _, _)
BorrowOut(a, b, i) ==
    IF i > Len(a) THEN 0
    ELSE IF a[i] - b[i] - BorrowOut(a, b, i + 1) < 0 THEN 1 ELSE 0

\* a - b truncated to the width of a
WrappingSub(a, b) ==
    [i \in 1..Len(a) |-> (a[i] - b[i] - BorrowOut(a, b, i + 1) + Limb) % Limb]

LimbLt(a, b) ==
    \E i \in 1..Len(a) : a[i] < b[i] /\ \A j \in 1..(i - 1) : a[j] = b[j]

LimbGe(a, b) == ~LimbLt(a, b)

\* x % m for a power of two m that divides 2^16
LimbMod(x, m) == x[Len(x)] % m

\* the number a limb sequence stands for, when it is below 2^31
ToNat(x) ==
    IF \A i \in 1..(Len(x) - 2) : x[i] = 0
    THEN x[Len(x) - 1] * Limb + x[Len(x)]
    ELSE -1

-----------------------------------------------------------------------------
(* Bus events *)

Ev(e, d, c, r) == [ev |-> e, data |-> d, cs |-> c, res |-> r]

\* mutant of AddrBytes: the 3 bytes in little-endian order
AddrBytes_LittleEndian(a) == <<a[2] % 256, a[2] \div 256, a[1] % 256>>

\* the 3 address bytes of a frame
AddrBytes(a) == <<a[1] % 256, a[2] \div 256, a[2] % 256>>

CsLow == Ev("cs_low", <<>>, "low", "ok")
CsHigh == Ev("cs_high", <<>>, "high", "ok")

\* what one transceiver call can do: succeed, or return an error
CallRes(failed) == IF failed THEN "err" ELSE "ok"

-----------------------------------------------------------------------------
(* Bus framing primitives.  Each yields the events it puts on the bus, the *)
(* level chip-select is left at, and how it returns.                       *)

\* outcomes of spi_transmit_and_receive the transceiver can produce
TROutcomes(tx, rx, dummy) ==
    {"ok"} \cup (IF tx # <<>> THEN {"tx_err"} ELSE {})
           \cup (IF dummy > 0 THEN {"dummy_err"} ELSE {})
           \cup (IF rx # <<>> THEN {"rx_err"} ELSE {})

\* mutant of SpiTransmitAndReceive: a failed transceiver call is returned as
\* an error in place of the unwrap
SpiTransmitAndReceive_Propagates(tx, rx, dummy, out) ==
    LET txEv == IF tx # <<>>
                THEN <<Ev("cmd", tx, "low", CallRes(out = "tx_err"))>>
                ELSE <<>>
        dmEv == IF dummy > 0 /\ out # "tx_err"
                THEN <<Ev("dummy", <<0>>, "low", CallRes(out = "dummy_err"))>>
                ELSE <<>>
        rxEv == IF rx # <<>> /\ out \notin {"tx_err", "dummy_err"}
                THEN <<Ev("read", rx, "low", CallRes(out = "rx_err"))>>
                ELSE <<>>
    IN  IF out = "ok"
        THEN [events |-> <<CsLow>> \o txEv \o dmEv \o rxEv \o <<CsHigh>>,
              cs |-> "high", ret |-> "Ok"]
        ELSE [events |-> <<CsLow>> \o txEv \o dmEv \o rxEv,
              cs |-> "low", ret |-> "Err"]

\* spi_transmit_and_receive(tx_buffer, rx_buffer, dummy_bytes); rx is what the
\* chip delivers into rx_buffer.  Every transceiver call is unwrapped: a
\* failure panics before chip-select is raised.
SpiTransmitAndReceive(tx, rx, dummy, out) ==
    LET txEv == IF tx # <<>>
                THEN <<Ev("cmd", tx, "low", CallRes(out = "tx_err"))>>
                ELSE <<>>
        dmEv == IF dummy > 0
                THEN <<Ev("dummy", <<0>>, "low", CallRes(out = "dummy_err"))>>
                ELSE <<>>
        rxEv == IF rx # <<>>
                THEN <<Ev("read", rx, "low", CallRes(out = "rx_err"))>>
                ELSE <<>>
    IN  CASE out = "tx_err" ->
                [events |-> <<CsLow>> \o txEv, cs |-> "low", ret |-> "Panic"]
          [] out = "dummy_err" ->
                [events |-> <<CsLow>> \o txEv \o dmEv, cs |-> "low", ret |-> "Panic"]
          [] out = "rx_err" ->
                [events |-> <<CsLow>> \o txEv \o dmEv \o rxEv, cs |-> "low",
                 ret |-> "Panic"]
          [] OTHER ->
                [events |-> <<CsLow>> \o txEv \o dmEv \o rxEv \o <<CsHigh>>,
                 cs |-> "high", ret |-> "Ok"]

\* outcomes of spi_transmit the transceiver can produce: the header write
\* fails, or accepts 0 bytes, or the payload write fails
TOutcomes(payload) ==
    {"ok", "hdr_err", "hdr_zero"}
        \cup (IF payload # <<>> THEN {"payload_err"} ELSE {})

\* spi_transmit(cmd, address, tx_buffer)
SpiTransmit(cmd, a, payload, out) ==
    LET hdr == <<cmd>> \o AddrBytes(a)
        hdrEv == Ev("cmd", hdr, "low",
                    CASE out = "hdr_err" -> "err"
                      [] out = "hdr_zero" -> "zero"
                      [] OTHER -> "ok")
        plEv == Ev("payload", payload, "low", CallRes(out = "payload_err"))
    IN  CASE out = "hdr_err" ->
                \* the early return skips cs.set_high()
                [events |-> <<CsLow, hdrEv>>, cs |-> "low", ret |-> "Err"]
          [] out = "hdr_zero" ->
                [events |-> <<CsLow, hdrEv, CsHigh>>, cs |-> "high", ret |-> "Ok"]
          [] out = "payload_err" ->
                [events |-> <<CsLow, hdrEv, plEv>>, cs |-> "low", ret |-> "Panic"]
          [] OTHER ->
                [events |-> <<CsLow, hdrEv>>
                            \o (IF payload # <<>> THEN <<plEv>> ELSE <<>>)
                            \o <<CsHigh>>,
                 cs |-> "high", ret |-> "Ok"]

\* a raw self.spi.write(&[byte]).unwrap(): chip-select is not touched
RawWrite(byte, level, failed) ==
    [events |-> <<Ev("cmd", <<byte>>, level, CallRes(failed))>>,
     cs |-> level, ret |-> IF failed THEN "Panic" ELSE "Ok"]

\* read_status_register(1): one transaction, 1 opcode byte out, 1 byte in
ReadStatusRegister1(status, out) ==
    SpiTransmitAndReceive(<<CmdReadStatusRegister1>>, <<status>>, 0, out)

Bit(status, mask) == (status \div mask) % 2 = 1

\* mutant of IsBusy: the write-enable mask is tested instead of the busy mask
IsBusy_WrongMask(status) == Bit(status, StatusWriteEnable)

\* mutant of IsBusy: the chip is never taken to be busy
IsBusy_Never(status) == FALSE

\* is_busy: status & StatusRegister::Busy != 0
IsBusy(status) == Bit(status, StatusBusy)

\* mutant of IsWriteEnable: == 0 in place of != 0
IsWriteEnable_Inverted(status) == ~Bit(status, StatusWriteEnable)

\* is_write_enable: status & StatusRegister::WriteEnable != 0
IsWriteEnable(status) == Bit(status, StatusWriteEnable)

-----------------------------------------------------------------------------
(* Pure parts of the public operations *)

\* write, steps 1 and 2: bytes up to the end of the page, cut to what is left
WriteSize(a, sz) ==
    LET toEnd == W25QXX_PAGE_SIZE - LimbMod(AsUsize(a), W25QXX_PAGE_SIZE)
    IN  IF LimbLt(sz, Usize(toEnd)) THEN ToNat(sz) ELSE toEnd

\* mutant of PageArgsBad: the upper limit is not checked
PageArgsBad_EmptyOnly(payload) == payload = <<>>

\* page_program's argument check
PageArgsBad(payload) ==
    payload = <<>> \/ Len(payload) = 0 \/ Len(payload) > W25QXX_PAGE_SIZE

\* erase's alignment check
Misaligned(a, l) ==
    LimbMod(a, W25QXX_SECTOR_SIZE) # 0 \/ LimbMod(l, W25QXX_SECTOR_SIZE) # 0

\* the branch erase's loop body takes at address a with sz bytes left:
\* the opcode and the advance, or "none" for the final else
EraseUnit(a, sz) ==
    IF LimbMod(a, W25QXX_BLOCK64K_SIZE) = 0 /\ LimbGe(sz, Usize(W25QXX_BLOCK64K_SIZE))
    THEN [cmd |-> CmdBlock64Erase, unit |-> W25QXX_BLOCK64K_SIZE]
    ELSE IF LimbMod(a, W25QXX_BLOCK32K_SIZE) = 0
            /\ LimbGe(sz, Usize(W25QXX_BLOCK32K_SIZE))
    THEN [cmd |-> CmdBlock32Erase, unit |-> W25QXX_BLOCK32K_SIZE]
    ELSE IF LimbMod(a, W25QXX_SECTOR_SIZE) = 0
            /\ LimbGe(sz, Usize(W25QXX_SECTOR_SIZE))
    THEN [cmd |-> CmdSectorErase, unit |-> W25QXX_SECTOR_SIZE]
    ELSE [cmd |-> 0, unit |-> 0]

\* mutant of JedecTx: one more zero byte after the opcode
JedecTx_FiveBytes == <<CmdJedec, 0, 0, 0, 0>>

\* read_jedec_register's tx_cmd: [u8; 4], zeroed, the opcode in byte 0
JedecTx == <<CmdJedec, 0, 0, 0>>

\* mutant of JedecMismatch: && in place of ||
JedecMismatch_Both(rx) ==
    rx[1] # W25QXX_MANID_VALUE /\ rx[2] # W25QXX_DEVID_VALUE_128

\* read_jedec_register's comparison of the 2 bytes received
JedecMismatch(rx) ==
    rx[1] # W25QXX_MANID_VALUE \/ rx[2] # W25QXX_DEVID_VALUE_128

\* mutant of FastReadCall: read goes through slow_read's framing (ReadData,
\* no dummy byte)
FastReadCall_Slow(a, rx, out) ==
    SpiTransmitAndReceive(<<CmdReadData>> \o AddrBytes(a), rx, 0, out)

\* fast_read's transaction: FastRead, 3 address bytes, 1 dummy byte
FastReadCall(a, rx, out) ==
    SpiTransmitAndReceive(<<CmdFastRead>> \o AddrBytes(a), rx, 1, out)

-----------------------------------------------------------------------------
(* Inputs and environment choices *)

\* u32 addresses given to erase: aligned to each unit, just below a unit
\* boundary, misaligned, and at the top of the 32-bit range
EraseAddrs ==
    {U32(0), U32(100), U32(28672), U32(32768), U32(61440),
     <<65535, 61440>>, <<65535, 65520>>}

\* usize lengths given to erase: sectors, blocks, mixtures, a misaligned
\* length and 2^32 + 4096
EraseLens ==
    {Usize(k * W25QXX_SECTOR_SIZE) : k \in 0..MaxSectors}
        \cup {Usize(100), Usize(32768), Usize(36864), Usize(65536), Usize(102400),
              <<0, 1, 0, 4096>>}

\* the requests given to erase: every address with every length above, two
\* sectors across the 2^24 boundary, and 2^32 + 4096 bytes from the last 64K
\* block of the 32-bit range
EraseRequests ==
    (EraseAddrs \X EraseLens)
        \cup {<< <<255, 61440>>, Usize(8192) >>, << <<65535, 0>>, <<0, 1, 0, 4096>> >>}

\* u32 addresses given to write: page start, inside a page, the last bytes
\* of the 24-bit and of the 32-bit range
WriteAddrs == {U32(0), U32(100), <<255, 65520>>, <<65535, 65520>>}

\* u32 addresses given to read: three distinct address bytes, and the same
\* with the top byte set
ReadAddrs == {U32(0), <<18, 13398>>, <<65298, 13398>>}

\* the bytes of a buffer of n bytes (main.rs fills byte i with i as u8)
Fill(n) == [i \in 1..n |-> (i - 1 + ((i - 1) \div 256)) % 256]

\* buffer lengths given to write
WriteLens == {0, 1, 32, 64, 256, 300} \cup {(MaxPages - 1) * 256 + 44}

\* page_program called on its own: a page start and the middle of a page,
\* with payloads of no byte, 1 byte, a page, and a page and one byte
PageProgramAddrs == {U32(0), U32(100)}
PageProgramLens == {0, 1, W25QXX_PAGE_SIZE, W25QXX_PAGE_SIZE + 1}

\* destination buffer lengths given to read
ReadLens == {0, 1, 64, 300}

\* what the flash returns for n data bytes (erased flash reads 0xFF)
FlashData(n) == [i \in 1..n |-> 255]

\* identification responses of the chip
IdResponses == {<<239, 23>>, <<239, 22>>, <<0, 23>>, <<0, 0>>, <<255, 255>>}

\* status register 1 as busy_wait may read it: idle, or busy at the price of
\* one anomaly
PollStatuses == {0, 1}
\* status register 1 as is_write_enable may read it: latch set, or clear at the
\* price of one anomaly
LatchStatuses == {2, 0}

\* an integer overflow panics (overflow checks on) or wraps (off)
OverflowModes == {"panic", "wrap"}

Quiet(normal) == normal \/ noise < MaxNoise
Noisy(normal) == IF normal THEN noise ELSE noise + 1

-----------------------------------------------------------------------------
(* Control flow shared by the steps *)

callerVars == <<caller, mainpc>>
argVars == <<address, len, buffer>>
localVars == <<addr, size, offset, u_end>>

Init ==
    /\ caller \in {"client", "main"}
    /\ mainpc = "init"
    /\ pc = "idle"
    /\ op = "none"
    /\ result = "none"
    /\ cs = "high"
    /\ trace = <<>>
    /\ noise = 0
    /\ address = U32(0)
    /\ len = Usize(0)
    /\ buffer = <<>>
    /\ addr = U32(0)
    /\ size = Usize(0)
    /\ offset = 0
    /\ u_end = U32(0)

\* the public operation returns r to its caller
Return(r) == pc' = "idle" /\ result' = r

\* the operation goes on at position p
Goto(p) == pc' = p /\ result' = "none"

\* the process panics: nothing runs after it
Panic == pc' = "halt" /\ result' = "Panic"

\* a bus primitive b has run: its events and the chip-select level it leaves
Bus(b) == trace' = trace \o b.events /\ cs' = b.cs

Begin(o) ==
    /\ pc = "idle"
    /\ op' = o
    /\ trace' = <<>>
    /\ noise' = 0

\* the erase transactions issued so far in the current call
ErasesIssued ==
    Cardinality({i \in 1..Len(trace) :
                    /\ trace[i].ev = "cmd"
                    /\ trace[i].data[1]
                         \in {CmdSectorErase, CmdBlock32Erase, CmdBlock64Erase}})

\* arguments and locals do not outlive a call
NoArgs == address' = U32(0) /\ len' = Usize(0) /\ buffer' = <<>>
NoLocals == addr' = U32(0) /\ size' = Usize(0) /\ offset' = 0 /\ u_end' = U32(0)

\* init: read_jedec_register comes first
StartInit ==
    /\ Begin("init")
    /\ Goto("jedec")
    /\ NoArgs /\ NoLocals
    /\ UNCHANGED cs

\* read -> fast_read -> argument check
StartRead(a, n) ==
    /\ Begin("read")
    /\ address' = a
    /\ len' = Usize(0)
    /\ buffer' = [i \in 1..n |-> 0]
    /\ IF n = 0 THEN Return("Err") ELSE Goto("fast_read")
    /\ NoLocals
    /\ UNCHANGED cs

\* write, lines 82-87: locals, then the loop test
StartWrite(a, buf) ==
    /\ Begin("write")
    /\ address' = a
    /\ len' = Usize(0)
    /\ buffer' = buf
    /\ size' = Usize(Len(buf))
    /\ offset' = 0
    /\ addr' = a
    /\ u_end' = U32(0)
    /\ IF Len(buf) > 0 THEN Goto("busy_wait") ELSE Return("Ok")
    /\ UNCHANGED cs

\* page_program(a, payload) called on its own: the argument check, then
\* write_enable
StartPageProgram(a, payload) ==
    /\ Begin("page_program")
    /\ address' = a
    /\ len' = Usize(0)
    /\ buffer' = payload
    /\ size' = Usize(Len(payload))
    /\ offset' = 0
    /\ addr' = a
    /\ u_end' = U32(0)
    /\ IF PageArgsBad(payload) THEN Return("Err") ELSE Goto("write_enable")
    /\ UNCHANGED cs

\* the tx_buffer page_program is given: the slice write cuts for the current
\* chunk, or the whole payload of a call of its own
Chunk ==
    IF op = "page_program" THEN buffer
    ELSE SubSeq(buffer, offset + 1, offset + WriteSize(addr, size))

\* the loop test of erase and the choice of the branch
EraseLoop(a, sz, e) ==
    IF LimbLt(a, e)
    THEN IF EraseUnit(a, sz).unit = 0 THEN Return("Err") ELSE Goto("busy_wait")
    ELSE Return("Ok")

\* erase, lines 111-121: the end address, locals, alignment check, loop test
StartErase(a, l) ==
    /\ Begin("erase")
    /\ address' = a
    /\ len' = l
    /\ buffer' = <<>>
    /\ \E mode \in OverflowModes :
        /\ AddOverflows(a, AsU32(l)) \/ mode = "wrap"
        /\ IF AddOverflows(a, AsU32(l)) /\ mode = "panic"
           THEN Panic /\ NoLocals
           ELSE /\ u_end' = WrappingAdd(a, AsU32(l))
                /\ size' = l
                /\ addr' = a
                /\ offset' = 0
                /\ IF Misaligned(a, l)
                   THEN Return("Err")
                   ELSE EraseLoop(a, l, WrappingAdd(a, AsU32(l)))
    /\ UNCHANGED cs

\* chip_erase: busy_wait comes first
StartChipErase ==
    /\ Begin("chip_erase")
    /\ Goto("busy_wait")
    /\ NoArgs /\ NoLocals
    /\ UNCHANGED cs

-----------------------------------------------------------------------------
(* Steps of the driver *)

\* write, lines 102-104 and the loop test: offset, size and addr advance by
\* the chunk, whatever page_program returned
WriteAdvance ==
    LET ws == WriteSize(addr, size)
        left == WrappingSub(size, Usize(ws))
    IN  \E mode \in OverflowModes :
          /\ AddOverflows(addr, U32(ws)) \/ mode = "wrap"
          /\ IF AddOverflows(addr, U32(ws)) /\ mode = "panic"
             THEN /\ Panic
                  /\ offset' = offset + ws
                  /\ size' = left
                  /\ addr' = addr
             ELSE /\ offset' = offset + ws
                  /\ size' = left
                  /\ addr' = WrappingAdd(addr, U32(ws))
                  /\ IF LimbLt(Usize(0), left) THEN Goto("busy_wait") ELSE Return("Ok")
          /\ UNCHANGED u_end

\* erase: size and addr advance by the unit just erased, then the loop test
EraseAdvance ==
    LET unit == EraseUnit(addr, size).unit
        left == WrappingSub(size, Usize(unit))
    IN  \E mode \in OverflowModes :
          /\ AddOverflows(addr, U32(unit)) \/ mode = "wrap"
          /\ IF AddOverflows(addr, U32(unit)) /\ mode = "panic"
             THEN /\ Panic
                  /\ size' = left
                  /\ addr' = addr
             ELSE /\ size' = left
                  /\ addr' = WrappingAdd(addr, U32(unit))
                  /\ EraseLoop(WrappingAdd(addr, U32(unit)), left, u_end)
          /\ UNCHANGED <<offset, u_end>>

\* where busy_wait returns to
AfterBusyWait ==
    CASE op = "init" -> Goto("reset_enable") /\ UNCHANGED localVars
      [] op = "write" ->
            \* page_program's argument check; write drops its result
            IF PageArgsBad(Chunk)
            THEN WriteAdvance
            ELSE Goto("write_enable") /\ UNCHANGED localVars
      [] OTHER -> Goto("write_enable") /\ UNCHANGED localVars

\* read_jedec_register: one transaction, 4 bytes out, 2 bytes in, compared
Jedec ==
    /\ pc = "jedec"
    /\ \E rx \in IdResponses : \E out \in TROutcomes(JedecTx, rx, 0) :
        LET b == SpiTransmitAndReceive(JedecTx, rx, 0, out)
        IN  /\ Quiet(out = "ok")
            /\ noise' = Noisy(out = "ok")
            /\ Bus(b)
            /\ IF b.ret = "Panic" THEN Panic
               ELSE IF JedecMismatch(rx) THEN Return("Err")
               ELSE Goto("busy_wait")
    /\ UNCHANGED <<callerVars, op, argVars, localVars>>

\* one round of busy_wait: is_busy reads status register 1
BusyPoll ==
    /\ pc = "busy_wait"
    /\ \E st \in PollStatuses :
       \E out \in TROutcomes(<<CmdReadStatusRegister1>>, <<st>>, 0) :
        LET b == ReadStatusRegister1(st, out)
        IN  /\ Quiet(out = "ok" /\ st = 0)
            /\ noise' = Noisy(out = "ok" /\ st = 0)
            /\ Bus(b)
            /\ IF b.ret = "Panic" THEN Panic /\ UNCHANGED localVars
               ELSE IF IsBusy(st) THEN UNCHANGED <<pc, result, localVars>>
               ELSE AfterBusyWait
    /\ UNCHANGED <<callerVars, op, argVars>>

\* reset, line 188: the enable-reset byte, written without chip-select
ResetEnable ==
    /\ pc = "reset_enable"
    /\ \E failed \in BOOLEAN :
        LET b == RawWrite(CmdEnableReset, cs, failed)
        IN  /\ Quiet(~failed)
            /\ noise' = Noisy(~failed)
            /\ Bus(b)
            /\ IF failed THEN Panic ELSE Goto("reset")
    /\ UNCHANGED <<callerVars, op, argVars, localVars>>

\* reset, line 189: the reset byte; init then returns Ok
Reset ==
    /\ pc = "reset"
    /\ \E failed \in BOOLEAN :
        LET b == RawWrite(CmdReset, cs, failed)
        IN  /\ Quiet(~failed)
            /\ noise' = Noisy(~failed)
            /\ Bus(b)
            /\ IF failed THEN Panic ELSE Return("Ok")
    /\ UNCHANGED <<callerVars, op, argVars, localVars>>

\* write_enable: the WriteEnable transaction, then is_write_enable reads
\* status register 1; Err when the latch is clear
WriteEnable ==
    /\ pc = "write_enable"
    /\ \E out \in TROutcomes(<<CmdWriteEnable>>, <<>>, 0) :
        LET b == SpiTransmitAndReceive(<<CmdWriteEnable>>, <<>>, 0, out)
        IN  /\ Quiet(out = "ok")
            /\ noise' = Noisy(out = "ok")
            /\ Bus(b)
            /\ IF b.ret = "Panic" THEN Panic ELSE Goto("latch")
    /\ UNCHANGED <<callerVars, op, argVars, localVars>>

\* where a successful write_enable returns to
AfterWriteEnable ==
    CASE op \in {"write", "page_program"} -> "page_program"
      [] op = "erase" -> "erase_cmd"
      [] OTHER -> "chip_erase_cmd"

Latch ==
    /\ pc = "latch"
    /\ \E st \in LatchStatuses :
       \E out \in TROutcomes(<<CmdReadStatusRegister1>>, <<st>>, 0) :
        LET b == ReadStatusRegister1(st, out)
        IN  /\ Quiet(out = "ok" /\ st = 2)
            /\ noise' = Noisy(out = "ok" /\ st = 2)
            /\ Bus(b)
            /\ IF b.ret = "Panic" THEN Panic /\ UNCHANGED localVars
               ELSE IF IsWriteEnable(st)
               THEN Goto(AfterWriteEnable) /\ UNCHANGED localVars
               ELSE IF op = "write"
               THEN WriteAdvance    \* let _ = self.page_program(..)
               ELSE Return("Err") /\ UNCHANGED localVars
    /\ UNCHANGED <<callerVars, op, argVars>>

\* page_program's transaction for the current chunk; write drops its result
PageProgram ==
    /\ pc = "page_program"
    /\ LET payload == Chunk
       IN  \E out \in TOutcomes(payload) :
            LET b == SpiTransmit(CmdPageProgram, addr, payload, out)
            IN  /\ Quiet(out = "ok")
                /\ noise' = Noisy(out = "ok")
                /\ Bus(b)
                /\ IF b.ret = "Panic" THEN Panic /\ UNCHANGED localVars
                   ELSE IF op = "page_program"
                   THEN Return(b.ret) /\ UNCHANGED localVars
                   ELSE WriteAdvance
    /\ UNCHANGED <<callerVars, op, argVars>>

\* erase_cmd's transaction for the current unit; erase propagates its error
EraseCmd ==
    /\ pc = "erase_cmd"
    /\ ErasesIssued < MaxUnits
    /\ \E out \in TOutcomes(<<>>) :
        LET b == SpiTransmit(EraseUnit(addr, size).cmd, addr, <<>>, out)
        IN  /\ Quiet(out = "ok")
            /\ noise' = Noisy(out = "ok")
            /\ Bus(b)
            /\ IF b.ret = "Err" THEN Return("Err") /\ UNCHANGED localVars
               ELSE EraseAdvance
    /\ UNCHANGED <<callerVars, op, argVars>>

\* chip_erase's transaction
ChipEraseCmd ==
    /\ pc = "chip_erase_cmd"
    /\ \E out \in TROutcomes(<<CmdChipErase>>, <<>>, 0) :
        LET b == SpiTransmitAndReceive(<<CmdChipErase>>, <<>>, 0, out)
        IN  /\ Quiet(out = "ok")
            /\ noise' = Noisy(out = "ok")
            /\ Bus(b)
            /\ IF b.ret = "Panic" THEN Panic ELSE Return("Ok")
    /\ UNCHANGED <<callerVars, op, argVars, localVars>>

\* fast_read's transaction; the bytes received land in the buffer
FastRead ==
    /\ pc = "fast_read"
    /\ \E out \in TROutcomes(<<CmdFastRead>>, FlashData(Len(buffer)), 1) :
        LET b == FastReadCall(address, FlashData(Len(buffer)), out)
        IN  /\ Quiet(out = "ok")
            /\ noise' = Noisy(out = "ok")
            /\ Bus(b)
            /\ IF b.ret = "Panic"
               THEN Panic /\ UNCHANGED buffer
               ELSE Return("Ok") /\ buffer' = FlashData(Len(buffer))
    /\ UNCHANGED <<callerVars, op, address, len, localVars>>

-----------------------------------------------------------------------------
(* Callers *)

\* a client calls the public operations in any order, one after the other
ClientInit == caller = "client" /\ StartInit /\ UNCHANGED callerVars

ClientRead ==
    /\ caller = "client"
    /\ \E a \in ReadAddrs, n \in ReadLens : StartRead(a, n)
    /\ UNCHANGED callerVars

ClientWrite ==
    /\ caller = "client"
    /\ \E a \in WriteAddrs, n \in WriteLens : StartWrite(a, Fill(n))
    /\ UNCHANGED callerVars

ClientErase ==
    /\ caller = "client"
    /\ \E r \in EraseRequests : StartErase(r[1], r[2])
    /\ UNCHANGED callerVars

ClientChipErase == caller = "client" /\ StartChipErase /\ UNCHANGED callerVars

\* main.rs, line 64: flash_memory.init()
MainInit ==
    /\ caller = "main" /\ mainpc = "init"
    /\ StartInit
    /\ mainpc' = "init_check"
    /\ UNCHANGED caller

\* main.rs, lines 64-67: main returns an error when init failed
MainInitCheck ==
    /\ caller = "main" /\ mainpc = "init_check" /\ pc = "idle"
    /\ mainpc' = IF result = "Err" THEN "exit_err" ELSE "erase"
    /\ UNCHANGED <<caller, pc, op, result, cs, trace, noise, argVars, localVars>>

\* main.rs, line 81: let _ = flash_memory.erase(address, 4096)
MainErase ==
    /\ caller = "main" /\ mainpc = "erase"
    /\ StartErase(U32(0), Usize(4096))
    /\ mainpc' = "write"
    /\ UNCHANGED caller

\* main.rs, line 85: let _ = flash_memory.write(address, &mut data_to_write)
MainWrite ==
    /\ caller = "main" /\ mainpc = "write"
    /\ StartWrite(U32(0), Fill(64))
    /\ mainpc' = "read"
    /\ UNCHANGED caller

\* main.rs, line 87: let _ = flash_memory.read(address, &mut read_buffer)
MainRead ==
    /\ caller = "main" /\ mainpc = "read"
    /\ StartRead(U32(0), 64)
    /\ mainpc' = "return"
    /\ UNCHANGED caller

\* main.rs, line 91: Ok(())
MainReturn ==
    /\ caller = "main" /\ mainpc = "return" /\ pc = "idle"
    /\ mainpc' = "exit_ok"
    /\ UNCHANGED <<caller, pc, op, result, cs, trace, noise, argVars, localVars>>

Next ==
    \/ ClientInit \/ ClientRead \/ ClientWrite \/ ClientErase \/ ClientChipErase
    \/ MainInit \/ MainInitCheck \/ MainErase \/ MainWrite \/ MainRead \/ MainReturn
    \/ Jedec \/ BusyPoll \/ ResetEnable \/ Reset
    \/ WriteEnable \/ Latch \/ PageProgram \/ EraseCmd \/ ChipEraseCmd \/ FastRead

Spec == Init /\ [][Next]_vars

\* page_program is private to the driver; here it is also called on its own,
\* with any payload, as code inside the driver may call it
CallPageProgram ==
    /\ caller = "client"
    /\ \E a \in PageProgramAddrs, n \in PageProgramLens : StartPageProgram(a, Fill(n))
    /\ UNCHANGED callerVars

PageProgramNext == Next \/ CallPageProgram

PageProgramSpec == Init /\ [][PageProgramNext]_vars

\* the steps of the driver inside a public operation
DriverStep ==
    \/ Jedec \/ BusyPoll \/ ResetEnable \/ Reset
    \/ WriteEnable \/ Latch \/ PageProgram \/ EraseCmd \/ ChipEraseCmd \/ FastRead

\* the driver is one thread of blocking calls: an operation that has started
\* takes its next step
LiveSpec == Init /\ [][Next]_vars /\ WF_vars(DriverStep)

-----------------------------------------------------------------------------
(* Reading the bus trace *)

MutatingCmds ==
    {CmdPageProgram, CmdSectorErase, CmdBlock32Erase, CmdBlock64Erase, CmdChipErase}
EraseCmds == {CmdSectorErase, CmdBlock32Erase, CmdBlock64Erase}
ResetCmds == {CmdEnableReset, CmdReset}

\* event i is the write of a command buffer whose opcode is one of codes
IsCmdAt(i, codes) ==
    i \in 1..Len(trace) /\ trace[i].ev = "cmd" /\ trace[i].data[1] \in codes

\* event i is the byte received by a read of status register 1
StatusReadAt(i) ==
    /\ i \in 3..Len(trace)
    /\ trace[i].ev = "read" /\ trace[i].res = "ok"
    /\ trace[i - 1] = Ev("cmd", <<CmdReadStatusRegister1>>, "low", "ok")
    /\ trace[i - 2] = CsLow

\* events i-2..i are a complete WriteEnable transaction
WriteEnableTxnEndsAt(i) ==
    /\ i \in 3..Len(trace)
    /\ trace[i] = CsHigh
    /\ trace[i - 1] = Ev("cmd", <<CmdWriteEnable>>, "low", "ok")
    /\ trace[i - 2] = CsLow

\* event i is the status byte read right after a WriteEnable transaction
LatchReadAt(i) == StatusReadAt(i) /\ WriteEnableTxnEndsAt(i - 3)

\* event i is a status byte read by busy_wait
PollReadAt(i) == StatusReadAt(i) /\ ~WriteEnableTxnEndsAt(i - 3)

LatchBitAt(i) == (trace[i].data[1] \div 2) % 2 = 1
BusyBitAt(i) == trace[i].data[1] % 2 = 1

\* the environment misbehaved at event i: the latch read clear, or a
\* transceiver call returned an error or accepted nothing
AnomalyAt(i) ==
    \/ LatchReadAt(i) /\ ~LatchBitAt(i)
    \/ i \in 1..Len(trace) /\ trace[i].res # "ok"

NoAnomaly == \A i \in 1..Len(trace) : ~AnomalyAt(i)

\* a step of write or erase failed at event i: the write-enable handshake
\* (latch clear), or the header write of the page-program / erase transaction
FailureAt(i) ==
    \/ LatchReadAt(i) /\ ~LatchBitAt(i)
    \/ IsCmdAt(i, MutatingCmds) /\ trace[i].res = "err"

Finished == pc \in {"idle", "halt"} /\ op # "none"

\* the indices of the command writes with an opcode of codes, in issue order
CmdIndices(codes) ==
    SelectSeq([i \in 1..Len(trace) |-> i], LAMBDA i : IsCmdAt(i, codes))

\* the advance that goes with an erase opcode
AdvanceOf(code) ==
    CASE code = CmdBlock64Erase -> 65536
      [] code = CmdBlock32Erase -> 32768
      [] OTHER -> 4096

RECURSIVE AdvanceSum(_, _)
\* the advances of the first k erase transactions of idx, added up
AdvanceSum(idx, k) ==
    IF k = 0 THEN 0
    ELSE AdvanceSum(idx, k - 1) + AdvanceOf(trace[idx[k]].data[1])

RECURSIVE PayloadSum(_, _)
\* the payload sizes of the first k page programs of idx, added up
PayloadSum(idx, k) ==
    IF k = 0 THEN 0
    ELSE PayloadSum(idx, k - 1) + Len(trace[idx[k] + 1].data)

RECURSIVE PayloadConcat(_, _)
PayloadConcat(idx, k) ==
    IF k = 0 THEN <<>>
    ELSE PayloadConcat(idx, k - 1) \o trace[idx[k] + 1].data

\* the 3 bytes that stand for address a + n on the wire
WireAddr(a, n) ==
    LET lo == a[2] + n
        hi == a[1] + (lo \div 65536)
    IN  <<hi % 256, (lo % 65536) \div 256, lo % 256>>

-----------------------------------------------------------------------------
(* Claims *)

\* C1 (as stated): for every sector-aligned (address, length), with the chip
\* and the bus behaving, erase returns Ok after erase transactions whose
\* advances add up to length, each at address + the advances before it and each
\* with the opcode the 64K > 32K > 4K rule picks there; length 0 issues none.
C1_ErasePartition ==
    (op = "erase" /\ Finished /\ ~Misaligned(address, len) /\ NoAnomaly) =>
        LET idx == CmdIndices(EraseCmds)
            n == Len(idx)
        IN  /\ result = "Ok"
            /\ ToNat(len) = AdvanceSum(idx, n)
            /\ \A k \in 1..n :
                LET before == AdvanceSum(idx, k - 1)
                    al == (address[2] + before) % 65536
                    remain == ToNat(len) - before
                    code == IF al % 65536 = 0 /\ remain >= 65536 THEN CmdBlock64Erase
                            ELSE IF al % 32768 = 0 /\ remain >= 32768 THEN CmdBlock32Erase
                            ELSE CmdSectorErase
                IN  trace[idx[k]].data = <<code>> \o WireAddr(address, before)

\* C1, where address + length stays within the u32 range: the same statement
\* (supporting check: neither `len as u32` nor the end address loses bits)
C1_ErasePartitionInRange ==
    (len = AsUsize(AsU32(len)) /\ ~AddOverflows(address, AsU32(len)))
        => C1_ErasePartition

\* C2 (as stated): for every start address A and buffer of length L, with the
\* chip and the bus behaving, write issues one page program per page touched
\* by [A, A + L); chunk k starts at A + the sizes before it, has 1..256 bytes,
\* does not cross a multiple of 256, and the payloads in issue order make up
\* the buffer; L = 0 issues none.
C2_WritePartition ==
    (op = "write" /\ Finished /\ NoAnomaly) =>
        LET idx == CmdIndices({CmdPageProgram})
            n == Len(idx)
            L == Len(buffer)
            first == address[2] % 256
        IN  /\ n = (IF L = 0 THEN 0 ELSE ((first + L - 1) \div 256) + 1)
            /\ \A k \in 1..n :
                LET before == PayloadSum(idx, k - 1)
                    sz == Len(trace[idx[k] + 1].data)
                IN  /\ trace[idx[k] + 1].ev = "payload"
                    /\ trace[idx[k]].data
                         = <<CmdPageProgram>> \o WireAddr(address, before)
                    /\ sz \in 1..256
                    /\ ((first + before) % 256) + sz <= 256
            /\ PayloadConcat(idx, n) = buffer

\* C2, where A + L stays within the u32 range: the same statement
\* (supporting check: the address never overflows here)
C2_WritePartitionInRange ==
    ~AddOverflows(address, U32(Len(buffer))) => C2_WritePartition

\* events i-8..i-1 are a write-enable handshake that succeeded, followed by
\* the chip-select assertion of the transaction of event i
HandshakeBefore(i) ==
    /\ i >= 9
    /\ trace[i - 1] = CsLow
    /\ trace[i - 2] = CsHigh
    /\ LatchReadAt(i - 3) /\ LatchBitAt(i - 3)

\* C3: every page-program, sector/32K/64K erase and chip-erase command is
\* immediately preceded by a WriteEnable transaction and a read of status
\* register 1 with the latch bit set, no bus event in between; after a latch
\* that reads clear no mutating command follows.
C3_WriteEnableBeforeMutation ==
    /\ \A i \in 1..Len(trace) : IsCmdAt(i, MutatingCmds) => HandshakeBefore(i)
    /\ \A i \in 1..Len(trace) :
        (LatchReadAt(i) /\ ~LatchBitAt(i)) => ~IsCmdAt(i + 3, MutatingCmds)

\* C3 witness: a mutating command was issued in an operation in which an
\* earlier handshake had failed
C3_Witness ==
    \E i, j \in 1..Len(trace) :
        /\ j < i
        /\ LatchReadAt(j) /\ ~LatchBitAt(j)
        /\ IsCmdAt(i, MutatingCmds) /\ trace[i].res = "ok"

\* C4 (as stated): for every (address, length) with address or length not a
\* multiple of 4096, erase returns an error and nothing happens on the bus.
C4_MisalignedEraseFails ==
    (op = "erase" /\ Misaligned(address, len)) =>
        (pc = "idle" /\ result = "Err" /\ trace = <<>>)

\* C4, the bus part alone: a misaligned erase puts nothing on the bus
\* (supporting check)
C4_MisalignedEraseSilent ==
    (op = "erase" /\ Misaligned(address, len)) =>
        (pc \in {"idle", "halt"} /\ result \in {"Err", "Panic"} /\ trace = <<>>)

\* C5 (as stated): in write and erase, once a handshake or a page-program /
\* erase transaction has failed, no page program or erase follows and the
\* operation returns an error; main stops at the first step that fails.
C5_AbortOnFirstFailure ==
    /\ op \in {"write", "erase"} =>
        \A i \in 1..Len(trace) :
            FailureAt(i) =>
                /\ \A k \in (i + 1)..Len(trace) : ~IsCmdAt(k, MutatingCmds)
                /\ pc = "idle" => result = "Err"
    /\ (caller = "main" /\ result = "Err") => mainpc \in {"init_check", "exit_err"}

\* the single transaction read(address, buffer) is to issue
ReadTransaction ==
    << CsLow,
       Ev("cmd", <<11>> \o WireAddr(address, 0), "low", "ok"),
       Ev("dummy", <<0>>, "low", "ok"),
       Ev("read", buffer, "low", "ok"),
       CsHigh >>

\* C6: a read into a non-empty buffer of n bytes is exactly one transaction:
\* chip-select low, 0x0B and the 3 address bytes, one dummy zero byte, one
\* receive of n bytes, chip-select high; it never returns an error.
C6_ReadOneTransaction ==
    (op = "read" /\ Len(buffer) > 0) =>
        /\ result # "Err"
        /\ (pc = "idle" => (result = "Ok" /\ trace = ReadTransaction))
        /\ Len(trace) <= 5
        /\ Len(SelectSeq(trace, LAMBDA e : e.ev = "cs_low")) <= 1

\* C6 witness: a read of 300 bytes at 0x123456 has returned
C6_Witness ==
    /\ op = "read" /\ pc = "idle" /\ result = "Ok"
    /\ Len(buffer) = 300 /\ address = <<18, 13398>>
    /\ trace[2].data = <<11, 18, 52, 86>>

\* the 2 identification bytes received, once they have been
IdReceived == Len(trace) >= 3 /\ trace[3].ev = "read" /\ trace[3].res = "ok"
IdBytes == trace[3].data

\* C7: init returns an error exactly when the identification bytes are not
\* (0xEF, 0x17); with (0xEF, 0x17) it returns Ok unless the bus fails.
C7_InitFailsIffIdMismatch ==
    op = "init" =>
        /\ result = "Err" <=> (IdReceived /\ IdBytes # <<239, 23>>)
        /\ result = "Ok" => (IdReceived /\ IdBytes = <<239, 23>>)
        /\ result = "Panic" => ~NoAnomaly

\* C7 witness: init has failed on a response whose first byte alone matches
C7_Witness ==
    op = "init" /\ pc = "idle" /\ result = "Err" /\ IdBytes = <<239, 22>>

\* C8 (as stated): chip-select is deasserted on every exit of transmit and
\* transmit_and_receive, so it is high whenever a public operation has
\* returned and whenever the next transaction asserts it.
C8_ChipSelectReleased ==
    /\ pc = "idle" => cs = "high"
    /\ \A i \in 2..Len(trace) :
        trace[i].ev = "cs_low" =>
            \E j \in 1..(i - 1) :
                /\ trace[j].ev = "cs_high"
                /\ \A k \in (j + 1)..(i - 1) : trace[k].ev # "cs_low"

\* C9 (as stated): every byte goes over the bus while chip-select is asserted,
\* each command inside a chip-select bracket of its own.
C9_TransfersInsideChipSelect ==
    \A i \in 1..Len(trace) :
        /\ trace[i].ev \in {"cmd", "payload", "dummy", "read"} => trace[i].cs = "low"
        /\ trace[i].ev = "cmd" => (i > 1 /\ trace[i - 1].ev = "cs_low")

\* C10: every page-program, erase, chip-erase and reset command comes after
\* a busy_wait read of status register 1 with the busy bit clear, with no
\* mutating command between that read and the command (so the wait is
\* repeated for every chunk and every erase unit).
C10_NotBusyBeforeCommand ==
    \A i \in 1..Len(trace) :
        IsCmdAt(i, MutatingCmds \cup ResetCmds) =>
            \E j \in 1..(i - 1) :
                /\ PollReadAt(j) /\ ~BusyBitAt(j)
                /\ \A k \in (j + 1)..(i - 1) : ~IsCmdAt(k, MutatingCmds)

\* C10 witness: the second unit of an operation is issued after a wait of
\* its own that saw the chip busy first
C10_Witness ==
    \E h, i, j \in 1..Len(trace) :
        /\ h < j /\ j < i
        /\ IsCmdAt(h, MutatingCmds)
        /\ PollReadAt(j) /\ BusyBitAt(j)
        /\ IsCmdAt(i, MutatingCmds)

-----------------------------------------------------------------------------
(* Claims about the erase loop *)

\* erase is inside a loop iteration that started with the current addr, size
InEraseIteration ==
    op = "erase" /\ pc \in {"busy_wait", "write_enable", "latch", "erase_cmd"}

\* neither `len as u32` nor address + len loses bits
EraseInRange ==
    len = AsUsize(AsU32(len)) /\ ~AddOverflows(address, AsU32(len))

\* address + length, as a number of the machine-word width
EraseEnd == WrappingAdd(AsUsize(address), len)

\* C11 (as stated): every erase transaction of erase(address, length) covers
\* only bytes of [address, address + length): the unit of size s issued at a
\* has address <= a, a + s <= address + length and a a multiple of s, and the
\* units follow one another without gap or overlap (a is address plus the
\* sizes of the units before), for every request the alignment check accepts.
C11_EraseInsideRange ==
    (op = "erase" /\ pc = "erase_cmd") =>
        LET s == EraseUnit(addr, size).unit
            idx == CmdIndices(EraseCmds)
            before == AdvanceSum(idx, Len(idx))
        IN  /\ LimbGe(addr, address)
            /\ LimbGe(EraseEnd, WrappingAdd(AsUsize(addr), Usize(s)))
            /\ LimbMod(addr, s) = 0
            /\ AsUsize(addr) = WrappingAdd(AsUsize(address), Usize(before))

\* C11, where address + length stays within the u32 range: the same statement
\* (supporting check)
C11_EraseInsideRangeInRange == EraseInRange => C11_EraseInsideRange

\* C13 (as stated): for every request that passed the alignment check, in every
\* loop iteration size = end - addr (end = address + length), addr is a
\* multiple of 4096 and at least 4096 bytes remain; the final else branch is
\* never taken (an error return comes from a failed handshake or transaction
\* only) and the loop exits with addr = end.
C13_EraseLoopInvariant ==
    (op = "erase" /\ ~Misaligned(address, len)) =>
        /\ InEraseIteration =>
            /\ size = WrappingSub(EraseEnd, AsUsize(addr))
            /\ LimbMod(addr, W25QXX_SECTOR_SIZE) = 0
            /\ LimbGe(size, Usize(W25QXX_SECTOR_SIZE))
        /\ (pc = "idle" /\ result = "Err") =>
            \E i \in 1..Len(trace) : FailureAt(i)
        /\ (pc = "idle" /\ result = "Ok") => AsUsize(addr) = EraseEnd

\* C13, where address + length stays within the u32 range: the same statement
\* (supporting check)
C13_EraseLoopInvariantInRange == EraseInRange => C13_EraseLoopInvariant

-----------------------------------------------------------------------------
(* Claims about busy_wait *)

\* the events a step has added to the trace
NewEvents == SubSeq(trace', Len(trace) + 1, Len(trace'))

\* a complete read of status register 1 that delivered st
StatusReadTxn(st) ==
    << CsLow,
       Ev("cmd", <<CmdReadStatusRegister1>>, "low", "ok"),
       Ev("read", <<st>>, "low", "ok"),
       CsHigh >>

\* the call of erase has reached the number of units the model follows
AtBound == pc = "erase_cmd" /\ ErasesIssued >= MaxUnits

\* a call of init, write, erase or chip_erase is under way
Polling == op \in {"init", "write", "erase", "chip_erase"} /\ pc \notin {"idle", "halt"}

\* one step taken inside busy_wait: only a read of status register 1 goes over
\* the bus; a read with the busy bit set leaves the driver in busy_wait, and
\* busy_wait is left only on a read with the busy bit clear or by a panic
BusyWaitStep ==
    pc = "busy_wait" =>
        /\ SubSeq(trace', 1, Len(trace)) = trace
        /\ \A k \in 1..Len(NewEvents) :
            NewEvents[k].ev = "cmd" => NewEvents[k].data = <<CmdReadStatusRegister1>>
        /\ \/ \E st \in 0..255 :
                /\ NewEvents = StatusReadTxn(st)
                /\ IF st % 2 = 1
                   THEN pc' = "busy_wait" /\ result' = "none"
                   ELSE pc' # "busy_wait"
           \/ /\ Len(NewEvents) \in 2..3
              /\ NewEvents[Len(NewEvents)].res = "err"
              /\ pc' = "halt" /\ result' = "Panic"

\* C12: with a chip whose busy bit reads clear after finitely many polls,
\* every call of init, write, erase and chip_erase ends (it returns or panics;
\* erase is followed for MaxUnits units); busy_wait itself has no bound: as
\* long as the busy bit reads set it stays in its loop, issuing only reads of
\* status register 1 and no mutating command.
C12_BusyWaitLiveness ==
    /\ Polling ~> (pc \in {"idle", "halt"} \/ AtBound)
    /\ [][BusyWaitStep]_vars

\* C12 witness: erase is polling before a further unit and every anomaly the
\* environment may produce has been a busy read of this wait
C12_Witness ==
    /\ op = "erase" /\ pc = "busy_wait"
    /\ \E i \in 1..Len(trace) : IsCmdAt(i, EraseCmds)
    /\ Len(trace) >= 4 * MaxNoise
    /\ \A k \in 0..(MaxNoise - 1) :
        PollReadAt(Len(trace) - 1 - 4 * k) /\ BusyBitAt(Len(trace) - 1 - 4 * k)

-----------------------------------------------------------------------------
(* Claims about identification, reset and init *)

\* a write-only transaction of the single byte b, in a chip-select bracket
ByteTxn(b) == <<CsLow, Ev("cmd", <<b>>, "low", "ok"), CsHigh>>

\* event i closes the busy_wait read that saw the chip idle
IdlePollEndsAt(i) ==
    i \in 4..Len(trace) /\ trace[i] = CsHigh /\ PollReadAt(i - 1) /\ ~BusyBitAt(i - 1)

\* C14 (as stated): reset puts its two bytes on the bus only after a read of
\* status register 1 with the busy bit clear, as exactly two write-only
\* transactions, EnableReset (0x66) then Reset (0x99), one byte each and each
\* in a chip-select bracket of its own, and nothing follows them.
C14_ResetSequence ==
    op = "init" =>
        /\ \A i \in 1..Len(trace) :
            IsCmdAt(i, ResetCmds) =>
                /\ i > 1 /\ trace[i - 1] = CsLow
                /\ trace[i].cs = "low"
                /\ Len(trace[i].data) = 1
        /\ (pc = "idle" /\ result = "Ok") =>
            /\ Len(trace) >= 14
            /\ SubSeq(trace, Len(trace) - 5, Len(trace))
                 = ByteTxn(CmdEnableReset) \o ByteTxn(CmdReset)
            /\ IdlePollEndsAt(Len(trace) - 6)

\* C14, without the chip-select brackets (supporting check): after the idle
\* poll, init ends with the two single bytes 0x66, 0x99 and nothing else, and
\* no reset byte is sent before that poll
C14_ResetSequenceBare ==
    op = "init" =>
        /\ \A i \in 1..Len(trace) :
            IsCmdAt(i, ResetCmds) =>
                /\ Len(trace[i].data) = 1
                /\ \E j \in 1..(i - 1) : IdlePollEndsAt(j)
                /\ \A k \in (i + 1)..Len(trace) : IsCmdAt(k, {CmdReset})
        /\ (pc = "idle" /\ result = "Ok") =>
            /\ Len(trace) >= 10
            /\ SubSeq(trace, Len(trace) - 1, Len(trace))
                 = << Ev("cmd", <<CmdEnableReset>>, "high", "ok"),
                      Ev("cmd", <<CmdReset>>, "high", "ok") >>
            /\ IdlePollEndsAt(Len(trace) - 2)

-----------------------------------------------------------------------------
(* Claims about the frames *)

AddressedCmds ==
    {CmdPageProgram, CmdSectorErase, CmdBlock32Erase, CmdBlock64Erase, CmdFastRead}

\* a u32 with bits 24..31 cleared
Low24(a) == <<a[1] % 256, a[2]>>

\* ((a >> 16) mod 256, (a >> 8) mod 256, a mod 256) of a u32
BigEndian3(a) == <<a[1] % 256, (a[2] \div 256) % 256, a[2] % 256>>

\* the step that issues an addressed command for the u32 address a: the frame
\* opens the transaction and is the opcode and the 3 bytes of a's low 24 bits
AddressedStep ==
    pc \in {"page_program", "erase_cmd", "fast_read"} =>
        LET a == IF pc = "fast_read" THEN address ELSE addr
        IN  /\ Len(NewEvents) >= 2
            /\ NewEvents[1] = CsLow
            /\ NewEvents[2].ev = "cmd"
            /\ Len(NewEvents[2].data) = 4
            /\ NewEvents[2].data[1] \in AddressedCmds
            /\ SubSeq(NewEvents[2].data, 2, 4) = BigEndian3(Low24(a))

\* write and erase never turn a request down for its address range: erase
\* returns an error only for a misaligned request or after a failed step,
\* write never
NoRangeCheck ==
    (op \in {"write", "erase"} /\ pc = "idle" /\ result = "Err") =>
        /\ op = "erase"
        /\ Misaligned(address, len) \/ \E i \in 1..Len(trace) : FailureAt(i)

\* C15: every page program, sector / 32K / 64K erase and fast read carries its
\* address as exactly 3 bytes after the opcode, big-endian, taken from the low
\* 24 bits of the 32-bit address (addresses that differ in bits 24..31 only
\* give the same frame), and write and erase apply no range check.
C15_ThreeByteAddress == []NoRangeCheck /\ [][AddressedStep]_vars

\* C15 witness: a write of 32 bytes at 0x00FFFFF0 has returned Ok after a page
\* program at 0xFFFFF0 and one at 0x1000000, framed as address 0x000000
C15_Witness ==
    /\ op = "write" /\ pc = "idle" /\ result = "Ok"
    /\ address = <<255, 65520>>
    /\ \E i, j \in 1..Len(trace) :
        /\ i < j
        /\ trace[i] = Ev("cmd", <<CmdPageProgram, 255, 255, 240>>, "low", "ok")
        /\ trace[j] = Ev("cmd", <<CmdPageProgram, 0, 0, 0>>, "low", "ok")

-----------------------------------------------------------------------------
(* Claims about page_program and spi_transmit *)

\* write is inside a loop iteration that started with the current addr, size
InWriteIteration ==
    op = "write" /\ pc \in {"busy_wait", "write_enable", "latch", "page_program"}

\* C16: page_program with an empty payload or one longer than 256 bytes
\* returns an error with nothing on the bus (no write-enable, no chip-select);
\* the chunks write hands to page_program have 1..256 bytes for every address
\* and buffer, so write never meets this rejection: each wait of write is
\* followed by the write-enable of its chunk.
C16_PageProgramArguments ==
    /\ (op = "page_program" /\ (Len(buffer) = 0 \/ Len(buffer) > 256)) =>
        (pc = "idle" /\ result = "Err" /\ trace = <<>>)
    /\ (op = "page_program" /\ Len(buffer) \in 1..256 /\ pc = "idle") =>
        trace # <<>>
    /\ InWriteIteration => Len(Chunk) \in 1..256
    /\ op = "write" =>
        \A i \in 1..Len(trace) :
            /\ trace[i].ev = "payload" => Len(trace[i].data) \in 1..256
            /\ (IdlePollEndsAt(i) /\ i < Len(trace)) =>
                (trace[i + 1] = CsLow /\ IsCmdAt(i + 2, {CmdWriteEnable}))

\* C16 witness: page_program was called with 257 bytes and has returned
C16_Witness ==
    op = "page_program" /\ pc = "idle" /\ Len(buffer) = 257 /\ result = "Err"

-----------------------------------------------------------------------------
(* Claims about identification and init *)

\* identification with the command buffer tx: the one transaction of init that
\* carries the identification opcode sends tx, then receives 2 bytes; init
\* returns an error when they are not (0xEF, 0x17), and goes on when they are
IdentifyWith(tx) ==
    op = "init" =>
        /\ \A i \in 1..Len(trace) : IsCmdAt(i, {CmdJedec}) => i = 2
        /\ Len(trace) >= 2 =>
            /\ trace[1] = CsLow
            /\ trace[2].ev = "cmd" /\ trace[2].data = tx
        /\ (Len(trace) >= 3 /\ trace[2].res = "ok") =>
            /\ trace[3].ev = "read" /\ Len(trace[3].data) = 2
            /\ \A i \in 4..Len(trace) :
                trace[i].ev = "read" => IsCmdAt(i - 1, {CmdReadStatusRegister1})
        /\ (IdReceived /\ IdBytes # <<239, 23>>) =>
            /\ pc = "idle" /\ result = "Err"
            /\ trace[4] = CsHigh /\ Len(trace) = 4
        /\ (IdReceived /\ IdBytes = <<239, 23>>) =>
            /\ result # "Err"
            /\ trace[4] = CsHigh

\* C17 (as stated): identify is one transaction that sends 0x90 followed by 4
\* zero bytes, receives exactly 2 bytes and returns an error unless they are
\* 0xEF, 0x17.
C17_IdentifyFourPlaceholders == IdentifyWith(<<144, 0, 0, 0, 0>>)

\* C17 (amended): identify is one transaction that sends 4 bytes, 0x90 followed
\* by 3 zero bytes, receives exactly 2 bytes and returns an error unless they
\* are 0xEF, 0x17.
C17_IdentifyThreePlaceholders == IdentifyWith(<<144, 0, 0, 0>>)

\* C17 witness: identification has failed on a response whose second byte
\* alone matches, after the 4-byte command
C17_Witness ==
    /\ op = "init" /\ pc = "idle" /\ result = "Err"
    /\ trace = << CsLow, Ev("cmd", <<144, 0, 0, 0>>, "low", "ok"),
                  Ev("read", <<0, 23>>, "low", "ok"), CsHigh >>

\* identification comes first and a failed identification ends init: reset's
\* bus activity (busy polls, EnableReset, Reset) is there only after the bytes
\* (0xEF, 0x17) were received, and a mismatch returns an error right away
IdentifyBeforeReset ==
    op = "init" =>
        /\ Len(trace) > 4 => (IdReceived /\ IdBytes = <<239, 23>> /\ trace[4] = CsHigh)
        /\ \A i \in 1..Len(trace) :
            (IsCmdAt(i, ResetCmds \cup {CmdReadStatusRegister1}) => i > 4)
        /\ (IdReceived /\ IdBytes # <<239, 23>>) =>
            (pc = "idle" /\ result = "Err" /\ Len(trace) = 4)

\* C18 (as stated): init identifies strictly before it resets and fails fast:
\* a failed identification returns the error with no reset-related bus
\* activity, and a failed reset makes init return that error.
C18_InitFailFast ==
    /\ IdentifyBeforeReset
    /\ op = "init" =>
        \A i \in 1..Len(trace) :
            (IsCmdAt(i, ResetCmds) /\ trace[i].res = "err") =>
                (pc = "idle" /\ result = "Err")

\* C18, the identification part alone (supporting check)
C18_IdentifyFailFast == IdentifyBeforeReset

-----------------------------------------------------------------------------
(* Claims about spi_transmit and about failures inside busy_wait *)

\* the commands that go through spi_transmit
TransmitCmds == {CmdPageProgram} \cup EraseCmds

\* a failed header write of spi_transmit comes back as an error (seen where
\* the caller passes it on: erase, and page_program called on its own), and a
\* payload is written only after a header write that succeeded, and only when
\* it is not empty
HeaderFailureReported ==
    \A i \in 1..Len(trace) :
        /\ (IsCmdAt(i, TransmitCmds) /\ trace[i].res = "err"
              /\ op \in {"erase", "page_program"}) =>
                (pc = "idle" /\ result = "Err" /\ i = Len(trace))
        /\ trace[i].ev = "payload" =>
            /\ IsCmdAt(i - 1, {CmdPageProgram}) /\ trace[i - 1].res = "ok"
            /\ trace[i].data # <<>>

\* C19 (as stated): in transmit a failed transceiver write, of the 4-byte
\* header or of the payload, comes back to the caller as an error value, and
\* the payload is written only if the header write succeeded and the payload
\* is not empty.
C19_TransmitReportsFailures ==
    /\ HeaderFailureReported
    /\ \A i \in 1..Len(trace) :
        (trace[i].ev = "payload" /\ trace[i].res = "err") =>
            /\ result # "Panic"
            /\ op = "page_program" => (pc = "idle" /\ result = "Err")

\* C19, the header write and the payload condition alone (supporting check)
C19_TransmitHeaderFailures == HeaderFailureReported

\* event i is a transceiver call that failed inside a busy_wait read of status
\* register 1 (the write of the opcode, or the read of the status byte)
PollFailureAt(i) ==
    /\ i \in 2..Len(trace)
    /\ trace[i].res = "err"
    /\ \/ IsCmdAt(i, {CmdReadStatusRegister1}) /\ ~WriteEnableTxnEndsAt(i - 2)
       \/ /\ trace[i].ev = "read"
          /\ IsCmdAt(i - 1, {CmdReadStatusRegister1})
          /\ ~WriteEnableTxnEndsAt(i - 3)

\* C20: a read of status register 1 that fails inside busy_wait is not
\* returned as an error: the process panics there, so the init, write, erase
\* or chip_erase that was polling returns neither Ok nor Err, and nothing
\* goes over the bus afterwards.
C20_PollFailurePanics ==
    \A i \in 1..Len(trace) :
        PollFailureAt(i) =>
            /\ op \in {"init", "write", "erase", "chip_erase"}
            /\ pc = "halt" /\ result = "Panic"
            /\ i = Len(trace)

\* C20 witness: erase has panicked in the wait before a further unit, on the
\* read of the status byte
C20_Witness ==
    /\ op = "erase" /\ result = "Panic"
    /\ PollFailureAt(Len(trace)) /\ trace[Len(trace)].ev = "read"
    /\ \E i \in 1..Len(trace) : IsCmdAt(i, EraseCmds) /\ trace[i].res = "ok"

====
